---- MODULE Spec2Model ----
(***************************************************************************)
(* Model of the user / ranking server actions of osu-guessr                *)
(* (src/unnamed/part_000): the users table, the games log and the          *)
(* queries that getUserByIdAction, getUserStatsAction,                     *)
(* getTopPlayersAction, getUserLatestGamesAction, getUserTopGamesAction,   *)
(* searchUsersAction and getHighestStatsAction run against them, and of    *)
(* the GET handler of the search-users endpoint                            *)
(* (src/src/app/games/background/components/GameImage.tsx, lines 35-72).   *)
(*                                                                         *)
(* The store is the pair (users, games).  Calls are made one at a time: a  *)
(* read leaves the store alone and leaves its response in ret until the     *)
(* caller has taken it, so ret always describes a call made against the    *)
(* current store.  call is the getUserByIdAction call that is between two  *)
(* of its queries, for the specification that runs it query by query.      *)
(* now is the clock of the store, the CURRENT_TIMESTAMP a new users row    *)
(* gets as created_at; it moves in the specification of the user rows.     *)
(***************************************************************************)
EXTENDS Integers, Sequences, FiniteSets, TLC

VARIABLES users, games, ret, call, now

vars == <<users, games, ret, call, now>>

(***************************************************************************)
(* Bounds and input domains.                                               *)
(***************************************************************************)
\* Cap on the length of the games log.
MaxGames == 2

\* bancho_id values the callers use.
UserIds == {1, 2}

\* The osu! account behind each bancho_id: the username and avatar_url that
\* sign-in passes to createUserAction.
OsuProfile ==
    [id \in UserIds |->
        [username |-> IF id = 1 THEN "abby" ELSE "gabriel",
         avatar_url |-> IF id = 1 THEN "a/1.png" ELSE "a/2.png"]]

\* <<points, streak>> of the games the game-session component stores.
GameScores == {<<1, 0>>, <<0, 1>>}

\* type GameMode / gameModeSchema, and GameVariant.
GameModes == {"background", "audio", "skin"}
GameVariants == {"classic", "death"}

\* The order of Object.keys(modeRanks).
ModeOrder == <<"background", "audio", "skin">>

\* Marks an omitted optional gameMode argument (undefined).
NoMode == "undefined"

\* Values a caller can pass for gameMode / variant: the enumerated ones, the
\* empty string and an unrecognized string.
ModeInputs == GameModes \cup {"", "bogus"}
VariantInputs == GameVariants \cup {"bogus"}

\* limit values passed to getTopPlayersAction: within the declared range
\* (TopLimits) and around its ends (LimitInputs).
TopLimits == {1, 2, 100}
LimitInputs == {0, 1, 100, 101}

\* limit: number = 10
DefaultLimit == 10

\* ret while no response is waiting for its caller.
NoCall == [op |-> "none"]

\* The value of a column that holds nothing.
Null == "NULL"

\* Cap on the clock of the store.
MaxClock == 2

\* No getUserByIdAction call is between two of its queries.
Idle == [pc |-> 0]

(***************************************************************************)
(* SQL aggregate functions over a set I of row numbers of games.           *)
(***************************************************************************)
RECURSIVE SumPoints(_)
SumPoints(I) ==
    IF I = {} THEN 0
    ELSE LET i == CHOOSE x \in I : TRUE
         IN  games[i].points + SumPoints(I \ {i})

MaxOf(S) == CHOOSE m \in S : \A x \in S : x <= m

MaxPoints(I) == MaxOf({games[i].points : i \in I})
MaxStreak(I) == MaxOf({games[i].streak : i \in I})
\* Mutant of MaxEndedAt: MIN(g.ended_at) in place of MAX.
MinEndedAt(I) == CHOOSE m \in {games[i].ended_at : i \in I} :
                    \A x \in {games[i].ended_at : i \in I} : m <= x
MaxEndedAt(I) == MaxOf({games[i].ended_at : i \in I})

\* COALESCE(SUM(points), 0) and COALESCE(MAX(streak), 0): the aggregate of no
\* rows is NULL.
CoalesceSumPoints(I) == IF I = {} THEN 0 ELSE SumPoints(I)
CoalesceMaxStreak(I) == IF I = {} THEN 0 ELSE MaxStreak(I)

\* The user_id values that GROUP BY user_id makes groups for.
GroupUserIds(I) == {games[i].user_id : i \in I}

\* Mutant of ClassicPointsOf: g.points without the CASE.
PointsOfAnyVariant(i) == games[i].points

\* CASE WHEN g.variant = 'classic' THEN g.points ELSE 0 END
ClassicPointsOf(i) == IF games[i].variant = "classic" THEN games[i].points ELSE 0

RECURSIVE SumClassicPoints(_)
SumClassicPoints(I) ==
    IF I = {} THEN 0
    ELSE LET i == CHOOSE x \in I : TRUE
         IN  ClassicPointsOf(i) + SumClassicPoints(I \ {i})

MaxClassicPoints(I) == MaxOf({ClassicPointsOf(i) : i \in I})

(***************************************************************************)
(* The state after construction: empty tables, no call made.               *)
(***************************************************************************)
Init ==
    /\ users = <<>>
    /\ games = <<>>
    /\ ret = NoCall
    /\ call = Idle
    /\ now = 0

(***************************************************************************)
(* Writes.                                                                 *)
(***************************************************************************)
\* The row an INSERT INTO users (bancho_id, username, avatar_url) makes: the
\* columns the statement does not name take their defaults.
NewUserRow(banchoId, username, avatar_url) ==
    [bancho_id |-> banchoId, username |-> username, avatar_url |-> avatar_url,
     special_badge |-> Null, special_badge_color |-> Null, created_at |-> now]

\* The statement as REPLACE INTO: an existing row is deleted and inserted anew.
createUserAction_ReplacesRow(banchoId, username, avatar_url) ==
    /\ ret = NoCall
    /\ users' = [id \in DOMAIN users \cup {banchoId} |->
                    IF id = banchoId
                    THEN NewUserRow(banchoId, username, avatar_url)
                    ELSE users[id]]
    /\ UNCHANGED <<games, ret, call, now>>

\* INSERT INTO users ... ON DUPLICATE KEY UPDATE username, avatar_url.
createUserAction(banchoId, username, avatar_url) ==
    /\ ret = NoCall
    /\ users' =
         IF banchoId \in DOMAIN users
         THEN [users EXCEPT ![banchoId].username = username,
                            ![banchoId].avatar_url = avatar_url]
         ELSE [id \in DOMAIN users \cup {banchoId} |->
                 IF id = banchoId
                 THEN NewUserRow(banchoId, username, avatar_url)
                 ELSE users[id]]
    /\ UNCHANGED <<games, ret, call, now>>

\* DELETE FROM users that takes the user's games with it.
deleteUserAction_CascadesToGames(banchoId) ==
    /\ ret = NoCall
    /\ users' = [id \in DOMAIN users \ {banchoId} |-> users[id]]
    /\ games' = SelectSeq(games, LAMBDA g : g.user_id # banchoId)
    /\ UNCHANGED <<ret, call, now>>

\* DELETE FROM users WHERE bancho_id = ? (the authenticated path); the
\* statement names no other table.
deleteUserAction(banchoId) ==
    /\ ret = NoCall
    /\ users' = [id \in DOMAIN users \ {banchoId} |-> users[id]]
    /\ UNCHANGED <<games, ret, call, now>>

\* The identity subsystem, which owns the users table, gives a user a badge.
SetSpecialBadge(banchoId, badge, color) ==
    /\ ret = NoCall
    /\ banchoId \in DOMAIN users
    /\ users' = [users EXCEPT ![banchoId].special_badge = badge,
                              ![banchoId].special_badge_color = color]
    /\ UNCHANGED <<games, ret, call, now>>

\* Time passes at the store.
Tick ==
    /\ ret = NoCall
    /\ now < MaxClock
    /\ now' = now + 1
    /\ UNCHANGED <<users, games, ret, call>>

\* The game-session component appends one GameResult for a signed-in user
\* when a game completes; ended_at is the time of completion.
InsertGame(userId, mode, variant, points, streak) ==
    /\ ret = NoCall
    /\ Len(games) < MaxGames
    /\ userId \in DOMAIN users
    /\ games' = Append(games,
                    [user_id |-> userId, game_mode |-> mode, variant |-> variant,
                     points |-> points, streak |-> streak,
                     ended_at |-> Len(games) + 1])
    /\ UNCHANGED <<users, ret, call, now>>

(***************************************************************************)
(* getUserByIdAction: its queries.                                         *)
(***************************************************************************)
\* SELECT ... FROM games g WHERE g.user_id = ?
\* GROUP BY g.user_id, g.game_mode, g.variant
AchievementsQuery(banchoId) ==
    LET Rows == {i \in DOMAIN games : games[i].user_id = banchoId}
        Keys == {<<games[i].game_mode, games[i].variant>> : i \in Rows}
        Group(k) == {i \in Rows : games[i].game_mode = k[1] /\ games[i].variant = k[2]}
    IN  {[user_id |-> banchoId,
          game_mode |-> k[1],
          variant |-> k[2],
          games_played |-> Cardinality(Group(k)),
          highest_score |-> MaxClassicPoints(Group(k)),
          highest_streak |-> MaxStreak(Group(k)),
          total_score |-> SumClassicPoints(Group(k)),
          last_played |-> MaxEndedAt(Group(k))] : k \in Keys}

\* Mutant of GlobalClassicRankQuery: SUM(points) without COALESCE, so that a
\* subject without rows is compared with NULL and no row is counted.
GlobalClassicRankQuery_NoCoalesce(banchoId) ==
    LET Ranked == {i \in DOMAIN games : games[i].variant = "classic"}
        total_score(u) == SumPoints({i \in Ranked : games[i].user_id = u})
        Own == {i \in DOMAIN games :
                   games[i].user_id = banchoId /\ games[i].variant = "classic"}
    IN  IF Own = {} THEN 0
        ELSE Cardinality({u \in GroupUserIds(Ranked) : total_score(u) > SumPoints(Own)})

\* WITH RankedUsers AS (SELECT user_id, SUM(points) ... WHERE variant = 'classic'
\* GROUP BY user_id) SELECT COUNT(*) FROM RankedUsers r WHERE r.total_score >
\* (SELECT COALESCE(SUM(points), 0) FROM games WHERE user_id = ? AND variant = 'classic')
GlobalClassicRankQuery(banchoId) ==
    LET Ranked == {i \in DOMAIN games : games[i].variant = "classic"}
        total_score(u) == SumPoints({i \in Ranked : games[i].user_id = u})
        own == CoalesceSumPoints({i \in DOMAIN games :
                   games[i].user_id = banchoId /\ games[i].variant = "classic"})
    IN  Cardinality({u \in GroupUserIds(Ranked) : total_score(u) > own})

\* Mutant of GlobalDeathRankQuery: RankedUsers still built from the 'classic'
\* rows.
GlobalDeathRankQuery_RanksClassicRows(banchoId) ==
    LET Ranked == {i \in DOMAIN games : games[i].variant = "classic"}
        highest_streak(u) == MaxStreak({i \in Ranked : games[i].user_id = u})
        own == CoalesceMaxStreak({i \in DOMAIN games :
                   games[i].user_id = banchoId /\ games[i].variant = "death"})
    IN  Cardinality({u \in GroupUserIds(Ranked) : highest_streak(u) > own})

\* The same over MAX(streak) of the 'death' rows.
GlobalDeathRankQuery(banchoId) ==
    LET Ranked == {i \in DOMAIN games : games[i].variant = "death"}
        highest_streak(u) == MaxStreak({i \in Ranked : games[i].user_id = u})
        own == CoalesceMaxStreak({i \in DOMAIN games :
                   games[i].user_id = banchoId /\ games[i].variant = "death"})
    IN  Cardinality({u \in GroupUserIds(Ranked) : highest_streak(u) > own})

\* Mutant of ModeClassicRankQuery: r.total_score >= in place of >.
ModeClassicRankQuery_CountsTies(mode, banchoId) ==
    LET Ranked == {i \in DOMAIN games :
                     games[i].game_mode = mode /\ games[i].variant = "classic"}
        total_score(u) == SumPoints({i \in Ranked : games[i].user_id = u})
        own == CoalesceSumPoints({i \in DOMAIN games :
                   /\ games[i].user_id = banchoId
                   /\ games[i].game_mode = mode
                   /\ games[i].variant = "classic"})
    IN  Cardinality({u \in GroupUserIds(Ranked) : total_score(u) >= own})

\* The per-mode classic query, parameters [mode, banchoId, mode].
ModeClassicRankQuery(mode, banchoId) ==
    LET Ranked == {i \in DOMAIN games :
                     games[i].game_mode = mode /\ games[i].variant = "classic"}
        total_score(u) == SumPoints({i \in Ranked : games[i].user_id = u})
        own == CoalesceSumPoints({i \in DOMAIN games :
                   /\ games[i].user_id = banchoId
                   /\ games[i].game_mode = mode
                   /\ games[i].variant = "classic"})
    IN  Cardinality({u \in GroupUserIds(Ranked) : total_score(u) > own})

\* Mutant of ModeDeathRankQuery: ties broken by user_id, as a row number
\* would.
ModeDeathRankQuery_TieBreakById(mode, banchoId) ==
    LET Ranked == {i \in DOMAIN games :
                     games[i].game_mode = mode /\ games[i].variant = "death"}
        highest_streak(u) == MaxStreak({i \in Ranked : games[i].user_id = u})
        own == CoalesceMaxStreak({i \in DOMAIN games :
                   /\ games[i].user_id = banchoId
                   /\ games[i].game_mode = mode
                   /\ games[i].variant = "death"})
    IN  Cardinality({u \in GroupUserIds(Ranked) :
            \/ highest_streak(u) > own
            \/ highest_streak(u) = own /\ u < banchoId})

\* The per-mode death query, parameters [mode, banchoId, mode].
ModeDeathRankQuery(mode, banchoId) ==
    LET Ranked == {i \in DOMAIN games :
                     games[i].game_mode = mode /\ games[i].variant = "death"}
        highest_streak(u) == MaxStreak({i \in Ranked : games[i].user_id = u})
        own == CoalesceMaxStreak({i \in DOMAIN games :
                   /\ games[i].user_id = banchoId
                   /\ games[i].game_mode = mode
                   /\ games[i].variant = "death"})
    IN  Cardinality({u \in GroupUserIds(Ranked) : highest_streak(u) > own})

\* modeRanks with an entry only for the modes the user has games in.
modeRanks_PlayedModesOnly(banchoId) ==
    [mode \in {games[i].game_mode : i \in {j \in DOMAIN games : games[j].user_id = banchoId}} |->
        [classic |-> ModeClassicRankQuery(mode, banchoId) + 1,
         death |-> ModeDeathRankQuery(mode, banchoId) + 1]]

\* modeRanks after the loop over Object.keys(modeRanks).
modeRanks(banchoId) ==
    [mode \in GameModes |->
        [classic |-> ModeClassicRankQuery(mode, banchoId) + 1,
         death |-> ModeDeathRankQuery(mode, banchoId) + 1]]

\* The object getUserByIdAction returns for an existing user.
Profile(banchoId) ==
    [user |-> users[banchoId],
     achievements |-> AchievementsQuery(banchoId),
     ranks |-> [globalRank |-> [classic |-> GlobalClassicRankQuery(banchoId) + 1,
                                death |-> GlobalDeathRankQuery(banchoId) + 1],
                modeRanks |-> modeRanks(banchoId)]]

\* getUserByIdAction with the null check after the other queries, and null
\* also for a user without achievements.
getUserByIdAction_NullAfterQueries(banchoId) ==
    /\ ret = NoCall
    /\ ret' = IF banchoId \notin DOMAIN users \/ AchievementsQuery(banchoId) = {}
              THEN [op |-> "getUserById", banchoId |-> banchoId,
                    found |-> FALSE, queries |-> 2 + 2 + 2 * Len(ModeOrder)]
              ELSE [op |-> "getUserById", banchoId |-> banchoId,
                    found |-> TRUE, queries |-> 2 + 2 + 2 * Len(ModeOrder),
                    value |-> Profile(banchoId)]
    /\ UNCHANGED <<users, games, call, now>>

\* getUserByIdAction(banchoId): null when the user row is missing, after the
\* one user query; otherwise the profile, after 1 + 1 + 2 + 2 * 3 queries.
getUserByIdAction(banchoId) ==
    /\ ret = NoCall
    /\ ret' = IF banchoId \notin DOMAIN users
              THEN [op |-> "getUserById", banchoId |-> banchoId,
                    found |-> FALSE, queries |-> 1]
              ELSE [op |-> "getUserById", banchoId |-> banchoId,
                    found |-> TRUE, queries |-> 2 + 2 + 2 * Len(ModeOrder),
                    value |-> Profile(banchoId)]
    /\ UNCHANGED <<users, games, call, now>>

(***************************************************************************)
(* Ordered queries.                                                        *)
(***************************************************************************)
\* ORDER BY <column> DESC over the rows E: every arrangement of the rows in
\* which the column never increases; rows with equal values come in any order.
OrderByDesc(E, column) ==
    {s \in [1..Cardinality(E) -> E] :
        /\ \A i, j \in 1..Cardinality(E) : i # j => s[i] # s[j]
        /\ \A i, j \in 1..Cardinality(E) : i < j => s[i][column] >= s[j][column]}

\* LIMIT ?
Limit(s, limit) == SubSeq(s, 1, IF limit < Len(s) THEN limit ELSE Len(s))

\* gameModeSchema.parse(v) returns v for an enumerated mode and throws otherwise.
GameModeSchemaAccepts(v) == v \in GameModes

(***************************************************************************)
(* getTopPlayersAction.                                                    *)
(***************************************************************************)
\* games g JOIN users u ON g.user_id = u.bancho_id WHERE g.game_mode = ? AND
\* g.variant = <variant>: the joined rows, by row number of games.
TopPlayersRows(mode, variant) ==
    {i \in DOMAIN games :
        /\ games[i].user_id \in DOMAIN users
        /\ games[i].game_mode = mode
        /\ games[i].variant = variant}

\* The classic SELECT list, one row per GROUP BY g.user_id group.
TopPlayersClassicRow(u, I) ==
    [bancho_id |-> users[u].bancho_id,
     username |-> users[u].username,
     avatar_url |-> users[u].avatar_url,
     special_badge |-> users[u].special_badge,
     special_badge_color |-> users[u].special_badge_color,
     created_at |-> users[u].created_at,
     games_played |-> Cardinality(I),
     highest_streak |-> MaxStreak(I),
     highest_score |-> MaxPoints(I),
     total_score |-> SumPoints(I)]

\* Mutant of TopPlayersDeathRow: the classic SELECT list.
TopPlayersDeathRow_WithPoints(u, I) == TopPlayersClassicRow(u, I)

\* The death SELECT list: 0 as highest_score, 0 as total_score.
TopPlayersDeathRow(u, I) ==
    [bancho_id |-> users[u].bancho_id,
     username |-> users[u].username,
     avatar_url |-> users[u].avatar_url,
     special_badge |-> users[u].special_badge,
     special_badge_color |-> users[u].special_badge_color,
     created_at |-> users[u].created_at,
     games_played |-> Cardinality(I),
     highest_streak |-> MaxStreak(I),
     highest_score |-> 0,
     total_score |-> 0]

\* Mutant of TopPlayersClassicQuery: ORDER BY highest_streak DESC.
TopPlayersClassicQuery_ByStreak(mode, limit) ==
    LET Rows == TopPlayersRows(mode, "classic")
        Grouped == {TopPlayersClassicRow(u, {i \in Rows : games[i].user_id = u}) :
                      u \in GroupUserIds(Rows)}
    IN  {Limit(s, limit) : s \in OrderByDesc(Grouped, "highest_streak")}

\* The classic query: ORDER BY total_score DESC LIMIT ?
TopPlayersClassicQuery(mode, limit) ==
    LET Rows == TopPlayersRows(mode, "classic")
        Grouped == {TopPlayersClassicRow(u, {i \in Rows : games[i].user_id = u}) :
                      u \in GroupUserIds(Rows)}
    IN  {Limit(s, limit) : s \in OrderByDesc(Grouped, "total_score")}

\* The death query: ORDER BY highest_streak DESC LIMIT ?
TopPlayersDeathQuery(mode, limit) ==
    LET Rows == TopPlayersRows(mode, "death")
        Grouped == {TopPlayersDeathRow(u, {i \in Rows : games[i].user_id = u}) :
                      u \in GroupUserIds(Rows)}
    IN  {Limit(s, limit) : s \in OrderByDesc(Grouped, "highest_streak")}

\* variant === "classic" ? <classic query> : <death query>
TopPlayersQuery(mode, variant, limit) ==
    IF variant = "classic"
    THEN TopPlayersClassicQuery(mode, limit)
    ELSE TopPlayersDeathQuery(mode, limit)

\* getTopPlayersAction(gamemode, variant, limit): the mode is parsed, then the
\* query chosen by the variant runs with [validatedMode, limit].
getTopPlayersAction(gamemode, variant, limit) ==
    /\ ret = NoCall
    /\ IF ~GameModeSchemaAccepts(gamemode)
       THEN ret' = [op |-> "getTopPlayers", gamemode |-> gamemode, variant |-> variant,
                    limit |-> limit, status |-> "error", queries |-> 0]
       ELSE \E rows \in TopPlayersQuery(gamemode, variant, limit) :
               ret' = [op |-> "getTopPlayers", gamemode |-> gamemode, variant |-> variant,
                       limit |-> limit, status |-> "ok", queries |-> 1, value |-> rows]
    /\ UNCHANGED <<users, games, call, now>>

(***************************************************************************)
(* getUserLatestGamesAction and getUserTopGamesAction.                     *)
(***************************************************************************)
\* gameMode ? gameModeSchema.parse(gameMode) : undefined -- an omitted mode and
\* the empty string are falsy and are not parsed.
ModeIsFalsy(gameMode) == gameMode = NoMode \/ gameMode = ""

\* WHERE user_id = ? [AND game_mode = ?] AND variant = ?
UserGamesRows(banchoId, gameMode, variant) ==
    {i \in DOMAIN games :
        /\ games[i].user_id = banchoId
        /\ (ModeIsFalsy(gameMode) \/ games[i].game_mode = gameMode)
        /\ games[i].variant = variant}

\* SELECT user_id, game_mode, points, streak, variant, ended_at FROM games
GameRows(I) == {games[i] : i \in I}

getUserLatestGamesAction(banchoId, gameMode, variant) ==
    /\ ret = NoCall
    /\ IF ~ModeIsFalsy(gameMode) /\ ~GameModeSchemaAccepts(gameMode)
       THEN ret' = [op |-> "getUserLatestGames", banchoId |-> banchoId,
                    gamemode |-> gameMode, variant |-> variant,
                    status |-> "error", queries |-> 0]
       ELSE \E rows \in OrderByDesc(GameRows(UserGamesRows(banchoId, gameMode, variant)),
                                    "ended_at") :
               ret' = [op |-> "getUserLatestGames", banchoId |-> banchoId,
                       gamemode |-> gameMode, variant |-> variant,
                       status |-> "ok", queries |-> 1, value |-> rows]
    /\ UNCHANGED <<users, games, call, now>>

\* const orderBy = variant === "classic" ? "points" : "streak"
TopGamesOrder(variant, E) ==
    OrderByDesc(E, IF variant = "classic" THEN "points" ELSE "streak")

getUserTopGamesAction(banchoId, gameMode, variant) ==
    /\ ret = NoCall
    /\ IF ~ModeIsFalsy(gameMode) /\ ~GameModeSchemaAccepts(gameMode)
       THEN ret' = [op |-> "getUserTopGames", banchoId |-> banchoId,
                    gamemode |-> gameMode, variant |-> variant,
                    status |-> "error", queries |-> 0]
       ELSE \E rows \in TopGamesOrder(variant,
                            GameRows(UserGamesRows(banchoId, gameMode, variant))) :
               ret' = [op |-> "getUserTopGames", banchoId |-> banchoId,
                       gamemode |-> gameMode, variant |-> variant,
                       status |-> "ok", queries |-> 1, value |-> rows]
    /\ UNCHANGED <<users, games, call, now>>

(***************************************************************************)
(* searchUsersAction. Usernames and search terms are sequences of          *)
(* characters, so that lengths, substrings and the LIKE pattern are        *)
(* computed on the characters.                                             *)
(***************************************************************************)
\* z.string().min(2).max(250) and z.number().min(1).max(100) of searchSchema.
MinTermLength == 2
MaxTermLength == 250
MinLimit == 1
MaxLimit == 100

\* searchSchema that accepts a term of one character.
SearchSchemaAccepts_MinOne(term, limit) ==
    /\ Len(term) >= 1
    /\ Len(term) <= MaxTermLength
    /\ limit >= MinLimit
    /\ limit <= MaxLimit

\* searchSchema.parse({ term, limit }) returns the object when the term has 2
\* to 250 characters and the limit is within 1..100, and throws otherwise.
SearchSchemaAccepts(term, limit) ==
    /\ Len(term) >= MinTermLength
    /\ Len(term) <= MaxTermLength
    /\ limit >= MinLimit
    /\ limit <= MaxLimit

\* The bound parameter `%${validated.term}%`.
LikePattern(term) == <<"%">> \o term \o <<"%">>

\* text LIKE pattern: % matches any run of characters, _ any one character,
\* a backslash makes the next pattern character literal, and every other
\* pattern character matches itself.
RECURSIVE LikeMatch(_, _)
LikeMatch(pattern, text) ==
    IF pattern = <<>> THEN text = <<>>
    ELSE IF Head(pattern) = "%"
         THEN \/ LikeMatch(Tail(pattern), text)
              \/ text # <<>> /\ LikeMatch(pattern, Tail(text))
    ELSE IF Head(pattern) = "\\" /\ Len(pattern) >= 2
         THEN /\ text # <<>>
              /\ pattern[2] = Head(text)
              /\ LikeMatch(Tail(Tail(pattern)), Tail(text))
    ELSE /\ text # <<>>
         /\ Head(pattern) = "_" \/ Head(pattern) = Head(text)
         /\ LikeMatch(Tail(pattern), Tail(text))

\* The place of a letter in the alphabet, the order ORDER BY username uses.
Letters ==
    <<"a", "b", "c", "d", "e", "f", "g", "h", "i", "j", "k", "l", "m",
      "n", "o", "p", "q", "r", "s", "t", "u", "v", "w", "x", "y", "z">>

CharCode(c) == CHOOSE i \in DOMAIN Letters : Letters[i] = c

\* a <= b in the order of ORDER BY username.
RECURSIVE UsernameLeq(_, _)
UsernameLeq(a, b) ==
    IF a = <<>> THEN TRUE
    ELSE IF b = <<>> THEN FALSE
    ELSE IF Head(a) = Head(b) THEN UsernameLeq(Tail(a), Tail(b))
    ELSE CharCode(Head(a)) < CharCode(Head(b))

\* FROM users WHERE username LIKE ?, with the selected columns.
SearchUsersRows(term) ==
    {[bancho_id |-> users[id].bancho_id, username |-> users[id].username,
      avatar_url |-> users[id].avatar_url, created_at |-> users[id].created_at] :
        id \in {u \in DOMAIN users : LikeMatch(LikePattern(term), users[u].username)}}

\* ORDER BY username over the rows E: every arrangement of the rows in which
\* the username never decreases; rows with equal usernames come in any order.
OrderByUsername(E) ==
    {s \in [1..Cardinality(E) -> E] :
        /\ \A i, j \in 1..Cardinality(E) : i # j => s[i] # s[j]
        /\ \A i, j \in 1..Cardinality(E) :
              i < j => UsernameLeq(s[i].username, s[j].username)}

\* The query of searchUsersAction with [`%term%`, limit]: its possible results.
SearchUsersQuery(term, limit) ==
    {Limit(s, limit) : s \in OrderByUsername(SearchUsersRows(term))}

\* searchUsersAction(searchTerm, limit): the arguments are parsed, then the
\* one query runs.
searchUsersAction(searchTerm, limit) ==
    /\ ret = NoCall
    /\ IF ~SearchSchemaAccepts(searchTerm, limit)
       THEN ret' = [op |-> "searchUsers", term |-> searchTerm, limit |-> limit,
                    status |-> "error", error |-> "ZodError", queries |-> 0]
       ELSE \E rows \in SearchUsersQuery(searchTerm, limit) :
               ret' = [op |-> "searchUsers", term |-> searchTerm, limit |-> limit,
                       status |-> "ok", queries |-> 1, value |-> rows]
    /\ UNCHANGED <<users, games, call, now>>

(***************************************************************************)
(* GET of the search-users endpoint. A query parameter is a record: absent *)
(* from the URL, or present with its characters. A JavaScript value handed *)
(* to querySchema is undefined, NaN or a number.                           *)
(***************************************************************************)
NoParam == [present |-> FALSE]

Param(chars) == [present |-> TRUE, chars |-> chars]

Undefined == [type |-> "undefined"]

NaN == [type |-> "number", nan |-> TRUE]

Num(n) == [type |-> "number", nan |-> FALSE, n |-> n]

\* The keys the API-key store holds, and the value of a missing header.
ValidApiKeys == {"key-1"}

NoApiKey == "null"

\* await validateApiKey(apiKey) throws for a key the store does not hold.
ValidateApiKeyThrows(apiKey) == apiKey \notin ValidApiKeys

\* searchParams.get("query") || "": null and the empty string become "".
QueryField(param) == IF param.present THEN param.chars ELSE <<>>

Digits == <<"0", "1", "2", "3", "4", "5", "6", "7", "8", "9">>

DigitValue(c) == (CHOOSE i \in DOMAIN Digits : Digits[i] = c) - 1

RECURSIVE DecimalValue(_)
DecimalValue(chars) ==
    IF chars = <<>> THEN 0
    ELSE 10 * DecimalValue(SubSeq(chars, 1, Len(chars) - 1))
         + DigitValue(chars[Len(chars)])

\* Number(searchParams.get("limit")): Number(null) and Number("") are 0, a
\* run of digits is its decimal value, any other text here is NaN.
NumberOf(param) ==
    IF ~param.present THEN Num(0)
    ELSE IF \A i \in DOMAIN param.chars : \E d \in DOMAIN Digits : Digits[d] = param.chars[i]
         THEN Num(DecimalValue(param.chars))
         ELSE NaN

\* default(20) of querySchema.limit.
EndpointDefaultLimit == 20

\* z.coerce.number().min(1).max(100).default(20) on a value: the default
\* replaces undefined only; NaN and a number outside 1..100 are rejected.
QuerySchemaLimitAccepts(value) ==
    \/ value.type = "undefined"
    \/ /\ ~value.nan
       /\ value.n >= MinLimit
       /\ value.n <= MaxLimit

QuerySchemaLimit(value) ==
    IF value.type = "undefined" THEN EndpointDefaultLimit ELSE value.n

\* querySchema.parse({ query, limit }) returns the parsed object or throws.
QuerySchemaAccepts(query, value) ==
    /\ Len(query) >= MinTermLength
    /\ Len(query) <= MaxTermLength
    /\ QuerySchemaLimitAccepts(value)

\* NextResponse.json(body, { status }); the status is 200 when none is given.
\* parsed and searches record what the handler did before it answered: whether
\* it parsed the parameters, and the searchUsersAction calls it made.
JsonResponse(request, status, body, parsed, searches) ==
    [op |-> "GET", request |-> request, status |-> status, body |-> body,
     parsed |-> parsed, searches |-> searches]

\* GET that parses the parameters before it validates the key.
GET_ParsesFirst(apiKey, queryParam, limitParam, storeFails) ==
    /\ ret = NoCall
    /\ LET request == [apiKey |-> apiKey, query |-> queryParam, limit |-> limitParam,
                       storeFails |-> storeFails]
           query == QueryField(queryParam)
           value == NumberOf(limitParam)
           failed == [success |-> FALSE, error |-> "Failed to search users"]
           search == <<[term |-> query, limit |-> QuerySchemaLimit(value)]>>
       IN  IF ~QuerySchemaAccepts(query, value)
           THEN ret' = JsonResponse(request, 500, failed, TRUE, <<>>)
           ELSE IF ValidateApiKeyThrows(apiKey)
           THEN ret' = JsonResponse(request, 403,
                           [success |-> FALSE, error |-> "Invalid API key"], TRUE, <<>>)
           ELSE IF storeFails
           THEN ret' = JsonResponse(request, 500, failed, TRUE, search)
           ELSE \E rows \in SearchUsersQuery(query, QuerySchemaLimit(value)) :
                   ret' = JsonResponse(request, 200,
                               [success |-> TRUE, data |-> rows], TRUE, search)
    /\ UNCHANGED <<users, games, call, now>>

\* GET whose second try has no catch: an exception of the parsing or of the
\* search leaves the handler, and the framework answers without the JSON body.
GET_NoCatch(apiKey, queryParam, limitParam, storeFails) ==
    /\ ret = NoCall
    /\ LET request == [apiKey |-> apiKey, query |-> queryParam, limit |-> limitParam,
                       storeFails |-> storeFails]
           query == QueryField(queryParam)
           value == NumberOf(limitParam)
           search == <<[term |-> query, limit |-> QuerySchemaLimit(value)]>>
       IN  IF ValidateApiKeyThrows(apiKey)
           THEN ret' = JsonResponse(request, 403,
                           [success |-> FALSE, error |-> "Invalid API key"], FALSE, <<>>)
           ELSE IF ~QuerySchemaAccepts(query, value)
           THEN ret' = JsonResponse(request, 500, [unhandled |-> "ZodError"], TRUE, <<>>)
           ELSE IF storeFails
           THEN ret' = JsonResponse(request, 500, [unhandled |-> "Error"], TRUE, search)
           ELSE \E rows \in SearchUsersQuery(query, QuerySchemaLimit(value)) :
                   ret' = JsonResponse(request, 200,
                               [success |-> TRUE, data |-> rows], TRUE, search)
    /\ UNCHANGED <<users, games, call, now>>

\* GET(request): the key is validated; then the parameters are parsed and
\* searchUsersAction(validated.query, validated.limit) is awaited, which
\* parses its arguments and runs its query; the store can fail the query.
\* Every exception of the second part is caught and answered with 500.
GET(apiKey, queryParam, limitParam, storeFails) ==
    /\ ret = NoCall
    /\ LET request == [apiKey |-> apiKey, query |-> queryParam, limit |-> limitParam,
                       storeFails |-> storeFails]
           query == QueryField(queryParam)
           value == NumberOf(limitParam)
           failed == [success |-> FALSE, error |-> "Failed to search users"]
           search == <<[term |-> query, limit |-> QuerySchemaLimit(value)]>>
       IN  IF ValidateApiKeyThrows(apiKey)
           THEN ret' = JsonResponse(request, 403,
                           [success |-> FALSE, error |-> "Invalid API key"], FALSE, <<>>)
           ELSE IF ~QuerySchemaAccepts(query, value)
           THEN ret' = JsonResponse(request, 500, failed, TRUE, <<>>)
           ELSE IF ~SearchSchemaAccepts(query, QuerySchemaLimit(value)) \/ storeFails
           THEN ret' = JsonResponse(request, 500, failed, TRUE, search)
           ELSE \E rows \in SearchUsersQuery(query, QuerySchemaLimit(value)) :
                   ret' = JsonResponse(request, 200,
                               [success |-> TRUE, data |-> rows], TRUE, search)
    /\ UNCHANGED <<users, games, call, now>>

(***************************************************************************)
(* getUserByIdAction query by query. The action awaits ten queries one     *)
(* after the other; between two of them the store is free to run a write   *)
(* of another request. call holds the place of the one call in flight and  *)
(* the results it has so far. getUserByIdAction above is this sequence     *)
(* with no write in between.                                               *)
(***************************************************************************)
\* The queries after the user query: achievements, two global ranks, and a
\* classic and a death rank for each mode.
NQueries == 3 + 2 * Len(ModeOrder)

\* The result of the k-th of them for the user, against the current store.
ProfileQuery(k, banchoId) ==
    IF k = 1 THEN AchievementsQuery(banchoId)
    ELSE IF k = 2 THEN GlobalClassicRankQuery(banchoId)
    ELSE IF k = 3 THEN GlobalDeathRankQuery(banchoId)
    ELSE IF k % 2 = 0 THEN ModeClassicRankQuery(ModeOrder[(k - 2) \div 2], banchoId)
    ELSE ModeDeathRankQuery(ModeOrder[(k - 3) \div 2], banchoId)

\* The returned object with each rank taken from the other variant's query.
AssembleProfile_SwapsVariants(user, results) ==
    [user |-> user,
     achievements |-> results[1],
     ranks |-> [globalRank |-> [classic |-> results[3] + 1, death |-> results[2] + 1],
                modeRanks |->
                    [mode \in GameModes |->
                        LET m == CHOOSE i \in DOMAIN ModeOrder : ModeOrder[i] = mode
                        IN  [classic |-> results[3 + 2 * m] + 1,
                             death |-> results[2 + 2 * m] + 1]]]]

\* The returned object, from the user row and the results of the queries.
AssembleProfile(user, results) ==
    [user |-> user,
     achievements |-> results[1],
     ranks |-> [globalRank |-> [classic |-> results[2] + 1, death |-> results[3] + 1],
                modeRanks |->
                    [mode \in GameModes |->
                        LET m == CHOOSE i \in DOMAIN ModeOrder : ModeOrder[i] = mode
                        IN  [classic |-> results[2 + 2 * m] + 1,
                             death |-> results[3 + 2 * m] + 1]]]]

\* The user query and the null check. start is the length of the games log
\* at this first query of the call.
getUserById_UserQuery(banchoId) ==
    /\ ret = NoCall
    /\ call = Idle
    /\ IF banchoId \notin DOMAIN users
       THEN /\ ret' = [op |-> "getUserById", banchoId |-> banchoId,
                       found |-> FALSE, queries |-> 1]
            /\ call' = Idle
       ELSE /\ ret' = ret
            /\ call' = [pc |-> 1, banchoId |-> banchoId, user |-> users[banchoId],
                        results |-> <<>>, start |-> Len(games)]
    /\ UNCHANGED <<users, games, now>>

\* The next awaited query of the call in flight; after the last one the
\* action returns the profile.
getUserById_NextQuery ==
    /\ call # Idle
    /\ LET results == Append(call.results, ProfileQuery(call.pc, call.banchoId))
       IN  IF call.pc < NQueries
           THEN /\ call' = [call EXCEPT !.pc = @ + 1, !.results = results]
                /\ ret' = ret
           ELSE /\ call' = Idle
                /\ ret' = [op |-> "getUserById", banchoId |-> call.banchoId,
                           found |-> TRUE, queries |-> 1 + NQueries,
                           value |-> AssembleProfile(call.user, results),
                           start |-> call.start]
    /\ UNCHANGED <<users, games, now>>

(***************************************************************************)
(* getUserByIdAction against a store that fails a query. query() rejects   *)
(* when the store fails; the action has no try around its awaits, so the   *)
(* rejection ends the call. failedAt is the place of the failing query     *)
(* among the ten of the call, the user query being the first.              *)
(***************************************************************************)
\* What the caller gets when the k-th query of the call was rejected.
Rejected(banchoId, k) ==
    [op |-> "getUserById", banchoId |-> banchoId, status |-> "rejected",
     error |-> "store failure", failedAt |-> k, queries |-> k]

\* The user query is rejected.
getUserById_UserQueryFails(banchoId) ==
    /\ ret = NoCall
    /\ call = Idle
    /\ ret' = Rejected(banchoId, 1)
    /\ call' = Idle
    /\ UNCHANGED <<users, games, now>>

\* A failing query answered with what the call has gathered so far.
getUserById_QueryFails_ReturnsPartial ==
    /\ call # Idle
    /\ ret' = [op |-> "getUserById", banchoId |-> call.banchoId, found |-> TRUE,
               failedAt |-> 1 + call.pc, queries |-> 1 + call.pc,
               value |-> [user |-> call.user, results |-> call.results]]
    /\ call' = Idle
    /\ UNCHANGED <<users, games, now>>

\* The next awaited query of the call in flight is rejected.
getUserById_QueryFails ==
    /\ call # Idle
    /\ ret' = Rejected(call.banchoId, 1 + call.pc)
    /\ call' = Idle
    /\ UNCHANGED <<users, games, now>>

(***************************************************************************)
(* getUserStatsAction and getHighestStatsAction.                           *)
(***************************************************************************)
\* The user_achievements relation: the per user, mode and variant aggregates
\* of the games log.
UserAchievementsTable == UNION {AchievementsQuery(u) : u \in GroupUserIds(DOMAIN games)}

\* getUserStatsAction(banchoId): the selected columns of the user's rows of
\* user_achievements; the query has no ORDER BY.
getUserStatsAction(banchoId) ==
    /\ ret = NoCall
    /\ ret' = [op |-> "getUserStats", banchoId |-> banchoId, queries |-> 1,
               value |-> {[user_id |-> r.user_id, game_mode |-> r.game_mode,
                           total_score |-> r.total_score,
                           games_played |-> r.games_played,
                           highest_streak |-> r.highest_streak,
                           highest_score |-> r.highest_score,
                           last_played |-> r.last_played] :
                             r \in {a \in UserAchievementsTable : a.user_id = banchoId}}]
    /\ UNCHANGED <<users, games, call, now>>

\* getHighestStatsAction(variant): one row over the games of the variant,
\* with the count of all users.
getHighestStatsAction(variant) ==
    /\ ret = NoCall
    /\ LET Rows == {i \in DOMAIN games : games[i].variant = variant}
       IN  ret' = [op |-> "getHighestStats", variant |-> variant, queries |-> 1,
                   value |-> [total_users |-> Cardinality(DOMAIN users),
                              total_games |-> Cardinality(Rows),
                              highest_points |->
                                  IF variant = "classic"
                                  THEN (IF Rows = {} THEN 0 ELSE MaxPoints(Rows))
                                  ELSE CoalesceMaxStreak(Rows)]]
    /\ UNCHANGED <<users, games, call, now>>

\* The caller takes the response of the call it awaited.
Respond ==
    /\ ret # NoCall
    /\ ret' = NoCall
    /\ UNCHANGED <<users, games, call, now>>

(***************************************************************************)
(* Specification of the profile reads over every store the writes reach.   *)
(***************************************************************************)
Write ==
    \/ \E id \in UserIds :
          createUserAction(id, OsuProfile[id].username, OsuProfile[id].avatar_url)
    \/ \E id \in UserIds : deleteUserAction(id)
    \/ \E id \in UserIds, m \in GameModes, v \in GameVariants, sc \in GameScores :
          InsertGame(id, m, v, sc[1], sc[2])

Next ==
    \/ Write
    \/ Respond
    \/ \E id \in UserIds : getUserByIdAction(id)

Spec == Init /\ [][Next]_vars

(***************************************************************************)
(* Specification of the leaderboard reads with arguments of the declared   *)
(* types.                                                                  *)
(***************************************************************************)
NextTop ==
    \/ Write
    \/ Respond
    \/ \E m \in GameModes, v \in GameVariants, l \in TopLimits : getTopPlayersAction(m, v, l)

SpecTop == Init /\ [][NextTop]_vars

(***************************************************************************)
(* Specification of the leaderboard read with limits around the ends of    *)
(* the declared range.                                                     *)
(***************************************************************************)
NextLimits ==
    \/ Write
    \/ Respond
    \/ \E m \in GameModes, v \in GameVariants, l \in LimitInputs :
          getTopPlayersAction(m, v, l)

SpecLimits == Init /\ [][NextLimits]_vars

(***************************************************************************)
(* Specification of the reads that take a mode and a variant, with         *)
(* whatever strings a caller of the server actions can send.               *)
(***************************************************************************)
NextEnums ==
    \/ Write
    \/ Respond
    \/ \E m \in ModeInputs, v \in VariantInputs : getTopPlayersAction(m, v, DefaultLimit)
    \/ \E id \in UserIds, m \in ModeInputs \cup {NoMode}, v \in VariantInputs :
          getUserLatestGamesAction(id, m, v)
    \/ \E id \in UserIds, m \in ModeInputs \cup {NoMode}, v \in VariantInputs :
          getUserTopGamesAction(id, m, v)

SpecEnums == Init /\ [][NextEnums]_vars

(***************************************************************************)
(* Specification of the user search: users are created under any of the    *)
(* usernames, two users can share one, and the search is called with terms *)
(* and limits inside and outside the ranges of searchSchema.               *)
(***************************************************************************)
Usernames ==
    {<<"a", "b", "b", "y">>, <<"g", "a", "b", "r", "i", "e", "l">>, <<"x", "y", "z">>}

\* A term of n characters.
TermOfLength(n) == [i \in 1..n |-> "a"]

TermInputs ==
    {<<>>, <<"a">>, <<"a", "b">>, <<"x", "y", "z">>, <<"z", "z">>, <<"a", "_">>,
     <<"%", "%">>, TermOfLength(MaxTermLength), TermOfLength(MaxTermLength + 1)}

SearchLimitInputs == {0, 1, 2, 100, 101}

NextSearch ==
    \/ \E id \in UserIds, name \in Usernames :
          createUserAction(id, name, OsuProfile[id].avatar_url)
    \/ \E id \in UserIds : deleteUserAction(id)
    \/ Respond
    \/ \E term \in TermInputs, l \in SearchLimitInputs : searchUsersAction(term, l)

SpecSearch == Init /\ [][NextSearch]_vars

(***************************************************************************)
(* Specification of the search-users endpoint: requests with and without   *)
(* a key the store holds, with and without each query parameter, against   *)
(* a store that answers or fails.                                          *)
(***************************************************************************)
ApiKeyInputs == {"key-1", "key-0", NoApiKey}

QueryParamInputs == {NoParam, Param(<<"a">>), Param(<<"a", "b">>), Param(<<"z", "z">>)}

LimitParamInputs ==
    {NoParam, Param(<<>>), Param(<<"0">>), Param(<<"1">>), Param(<<"2", "0">>),
     Param(<<"1", "0", "1">>), Param(<<"a">>)}

NextEndpoint ==
    \/ \E id \in UserIds, name \in Usernames :
          createUserAction(id, name, OsuProfile[id].avatar_url)
    \/ \E id \in UserIds : deleteUserAction(id)
    \/ Respond
    \/ \E k \in ApiKeyInputs, q \in QueryParamInputs, l \in LimitParamInputs,
          f \in BOOLEAN : GET(k, q, l, f)

SpecEndpoint == Init /\ [][NextEndpoint]_vars

(***************************************************************************)
(* Specification of one getUserByIdAction call running query by query      *)
(* while other requests write: users come and go and games of the          *)
(* background mode are appended between any two queries of the call.       *)
(***************************************************************************)
NextSteps ==
    \/ \E id \in UserIds :
          createUserAction(id, OsuProfile[id].username, OsuProfile[id].avatar_url)
    \/ \E id \in UserIds : deleteUserAction(id)
    \/ \E id \in UserIds, v \in GameVariants, sc \in GameScores :
          InsertGame(id, "background", v, sc[1], sc[2])
    \/ Respond
    \/ \E id \in UserIds : getUserById_UserQuery(id)
    \/ getUserById_NextQuery

SpecSteps == Init /\ [][NextSteps]_vars

(***************************************************************************)
(* Specification of the call running query by query against a store that   *)
(* can fail any of its queries, while other requests write.                *)
(***************************************************************************)
NextFail ==
    \/ NextSteps
    \/ \E id \in UserIds : getUserById_UserQueryFails(id)
    \/ getUserById_QueryFails

SpecFail == Init /\ [][NextFail]_vars

(***************************************************************************)
(* Specification of the user rows: users sign in again as time passes and  *)
(* their osu! account is renamed, are given a badge, and are deleted.      *)
(***************************************************************************)
\* The username of the osu! account at the odd times of the clock.
RenamedProfile ==
    [id \in UserIds |-> IF id = 1 THEN "abbie" ELSE "gabe"]

\* The username sign-in passes to createUserAction at time t.
OsuNameAt(id, t) ==
    IF t % 2 = 0 THEN OsuProfile[id].username ELSE RenamedProfile[id]

BadgeInputs == {<<"Developer", "#ff0000">>}

NextUsers ==
    \/ \E id \in UserIds :
          createUserAction(id, OsuNameAt(id, now), OsuProfile[id].avatar_url)
    \/ \E id \in UserIds : deleteUserAction(id)
    \/ \E id \in UserIds, b \in BadgeInputs : SetSpecialBadge(id, b[1], b[2])
    \/ Tick

SpecUsers == Init /\ [][NextUsers]_vars

(***************************************************************************)
(* Specification of what the reads show of a user as users are created     *)
(* and deleted and games of the background mode are appended: the profile, *)
(* the search and the leaderboard, with a limit of one row and with the    *)
(* default limit.                                                          *)
(***************************************************************************)
VisibleLimits == {1, DefaultLimit}

VisibleTerms == {<<"a", "b">>, <<"x", "y", "z">>}

NextVisible ==
    \/ \E id \in UserIds, name \in Usernames :
          createUserAction(id, name, OsuProfile[id].avatar_url)
    \/ \E id \in UserIds : deleteUserAction(id)
    \/ \E id \in UserIds, v \in GameVariants, sc \in GameScores :
          InsertGame(id, "background", v, sc[1], sc[2])
    \/ Respond
    \/ \E id \in UserIds : getUserByIdAction(id)
    \/ \E term \in VisibleTerms, l \in VisibleLimits : searchUsersAction(term, l)
    \/ \E v \in GameVariants, l \in VisibleLimits :
          getTopPlayersAction("background", v, l)

SpecVisible == Init /\ [][NextVisible]_vars

(***************************************************************************)
(* Specification of every server action of the module, called in any       *)
(* order, with the game-session component appending games of the           *)
(* background mode.                                                        *)
(***************************************************************************)
NextAll ==
    \/ \E id \in UserIds, name \in Usernames :
          createUserAction(id, name, OsuProfile[id].avatar_url)
    \/ \E id \in UserIds : deleteUserAction(id)
    \/ \E id \in UserIds, v \in GameVariants, sc \in GameScores :
          InsertGame(id, "background", v, sc[1], sc[2])
    \/ Respond
    \/ \E id \in UserIds : getUserByIdAction(id)
    \/ \E id \in UserIds : getUserStatsAction(id)
    \/ \E id \in UserIds : getUserLatestGamesAction(id, NoMode, "classic")
    \/ \E id \in UserIds : getUserTopGamesAction(id, "background", "death")
    \/ \E v \in GameVariants : getTopPlayersAction("background", v, DefaultLimit)
    \/ searchUsersAction(<<"a", "b">>, DefaultLimit)
    \/ \E v \in GameVariants : getHighestStatsAction(v)

SpecAll == Init /\ [][NextAll]_vars

(***************************************************************************)
(* Reference quantities of the claims, computed by replaying the log       *)
(* row by row, independently of the queries above.                         *)
(***************************************************************************)
Partitions == {"global"} \cup GameModes

\* Row g belongs to user u in the partition and variant.
InPartition(g, u, part, variant) ==
    /\ g.user_id = u
    /\ g.variant = variant
    /\ (part = "global" \/ g.game_mode = part)

RECURSIVE ReplayTotal(_, _, _, _)
ReplayTotal(u, part, variant, n) ==
    IF n = 0 THEN 0
    ELSE ReplayTotal(u, part, variant, n - 1)
         + (IF InPartition(games[n], u, part, variant) THEN games[n].points ELSE 0)

RECURSIVE ReplayBestStreak(_, _, _, _)
ReplayBestStreak(u, part, variant, n) ==
    IF n = 0 THEN 0
    ELSE LET best == ReplayBestStreak(u, part, variant, n - 1)
         IN  IF InPartition(games[n], u, part, variant) /\ games[n].streak > best
             THEN games[n].streak
             ELSE best

RECURSIVE ReplayCount(_, _, _, _)
ReplayCount(u, part, variant, n) ==
    IF n = 0 THEN 0
    ELSE ReplayCount(u, part, variant, n - 1)
         + (IF InPartition(games[n], u, part, variant) THEN 1 ELSE 0)

RECURSIVE ReplayBestPoints(_, _, _, _)
ReplayBestPoints(u, part, variant, n) ==
    IF n = 0 THEN 0
    ELSE LET best == ReplayBestPoints(u, part, variant, n - 1)
         IN  IF InPartition(games[n], u, part, variant) /\ games[n].points > best
             THEN games[n].points
             ELSE best

RECURSIVE ReplayLastPlayed(_, _, _, _)
ReplayLastPlayed(u, part, variant, n) ==
    IF n = 0 THEN 0
    ELSE IF InPartition(games[n], u, part, variant)
         THEN games[n].ended_at
         ELSE ReplayLastPlayed(u, part, variant, n - 1)

\* The ranking metric: total points of the classic games, or best streak of
\* the death games; 0 for a user without such games.
Metric(u, part, variant) ==
    IF variant = "classic"
    THEN ReplayTotal(u, part, "classic", Len(games))
    ELSE ReplayBestStreak(u, part, "death", Len(games))

HasGames(u, part, variant) == ReplayCount(u, part, variant, Len(games)) > 0

\* The rank a profile reports for a partition and variant.
ReportedRank(profile, part, variant) ==
    IF part = "global"
    THEN profile.ranks.globalRank[variant]
    ELSE profile.ranks.modeRanks[part][variant]

\* ret holds a profile that getUserByIdAction returned.
ProfileReturned == ret.op = "getUserById" /\ ret.found

\* C1: the rank getUserByIdAction(U) reports for every partition and variant is
\* 1 + the number of users (user_id values, with or without games) whose
\* metric there is strictly greater than U's metric.
C1_RankIsOnePlusStrictlyGreater ==
    ProfileReturned =>
        \A part \in Partitions, variant \in GameVariants :
            ReportedRank(ret.value, part, variant)
              = 1 + Cardinality({v \in UserIds :
                        Metric(v, part, variant) > Metric(ret.banchoId, part, variant)})

\* A profile whose user is first with points of their own in one mode and
\* outranked in another partition.
C1_Witness ==
    /\ ProfileReturned
    /\ \E m \in GameModes :
          /\ ReportedRank(ret.value, m, "classic") = 1
          /\ Metric(ret.banchoId, m, "classic") > 0
    /\ \E part \in Partitions, variant \in GameVariants :
          ReportedRank(ret.value, part, variant) = 2

\* C2: if A's metric is strictly greater than B's in a partition and variant,
\* the rank reported for A is strictly smaller than the rank reported for B.
C2_RankMonotonic ==
    ProfileReturned =>
        \A b \in DOMAIN users, part \in Partitions, variant \in GameVariants :
            Metric(ret.banchoId, part, variant) > Metric(b, part, variant)
              => ReportedRank(ret.value, part, variant)
                   < ReportedRank(Profile(b), part, variant)

\* A has the greater metric than B, and B has games of its own there.
C2_Witness ==
    /\ ProfileReturned
    /\ \E b \in DOMAIN users, part \in Partitions, variant \in GameVariants :
          /\ Metric(ret.banchoId, part, variant) > Metric(b, part, variant)
          /\ HasGames(b, part, variant)
          /\ ReportedRank(Profile(b), part, variant) = 2

\* C3: two users whose metrics are equal in a partition and variant are
\* reported the same rank.
C3_TiesShareRank ==
    ProfileReturned =>
        \A b \in DOMAIN users, part \in Partitions, variant \in GameVariants :
            Metric(ret.banchoId, part, variant) = Metric(b, part, variant)
              => ReportedRank(ret.value, part, variant)
                   = ReportedRank(Profile(b), part, variant)

\* Two different users tie on a non-zero metric.
C3_Witness ==
    /\ ProfileReturned
    /\ \E b \in DOMAIN users \ {ret.banchoId}, part \in Partitions, variant \in GameVariants :
          /\ Metric(ret.banchoId, part, variant) = Metric(b, part, variant)
          /\ Metric(b, part, variant) > 0

\* C4: a user without games in a partition and variant is ranked with metric 0:
\* the rank is 1 + the number of users whose metric there is > 0; and every
\* reported rank is an integer >= 1.
C4_NoGamesRankedFromZero ==
    ProfileReturned =>
        \A part \in Partitions, variant \in GameVariants :
            /\ ReportedRank(ret.value, part, variant) \in Nat \ {0}
            /\ ~HasGames(ret.banchoId, part, variant)
                 => ReportedRank(ret.value, part, variant)
                      = 1 + Cardinality({v \in UserIds : Metric(v, part, variant) > 0})

\* A user without classic games in a mode where another user has scored.
C4_Witness ==
    /\ ProfileReturned
    /\ \E m \in GameModes :
          /\ ~HasGames(ret.banchoId, m, "classic")
          /\ ReportedRank(ret.value, m, "classic") = 2

\* C5: the achievements of a profile hold exactly one row for each
\* (game_mode, variant) in which the user has a game and no other row; the
\* row's games_played, highest_streak and last_played are the count, the
\* maximum streak and the latest ended_at of exactly the user's games with that
\* mode and variant, and its total_score and highest_score are the sum and the
\* maximum of the points of those games where they are classic games.
C5_AchievementsPerKey ==
    ProfileReturned =>
        LET u == ret.banchoId
            ach == ret.value.achievements
            n == Len(games)
        IN  /\ \A r \in ach :
                  /\ r.user_id = u
                  /\ r.game_mode \in GameModes
                  /\ r.variant \in GameVariants
            /\ \A m \in GameModes, v \in GameVariants :
                  LET rows == {r \in ach : r.game_mode = m /\ r.variant = v}
                  IN  IF ~HasGames(u, m, v)
                      THEN rows = {}
                      ELSE /\ Cardinality(rows) = 1
                           /\ \A r \in rows :
                                 /\ r.games_played = ReplayCount(u, m, v, n)
                                 /\ r.highest_streak = ReplayBestStreak(u, m, v, n)
                                 /\ r.last_played = ReplayLastPlayed(u, m, v, n)
                                 /\ r.total_score =
                                      (IF v = "classic" THEN ReplayTotal(u, m, v, n) ELSE 0)
                                 /\ r.highest_score =
                                      (IF v = "classic" THEN ReplayBestPoints(u, m, v, n) ELSE 0)

\* A user with a game under a key under which another user has a game too.
C5_Witness ==
    /\ ProfileReturned
    /\ \E r \in ret.value.achievements :
          /\ r.games_played = 1
          /\ \E b \in UserIds \ {ret.banchoId} : HasGames(b, r.game_mode, r.variant)

\* C6: every death row of the achievements has total_score = 0 and
\* highest_score = 0 whatever points its games carry, and the classic row of a
\* mode counts and sums the classic games of that mode only.
C6_DeathRowsZeroNoMerge ==
    ProfileReturned =>
        LET u == ret.banchoId
            n == Len(games)
        IN  \A r \in ret.value.achievements :
                /\ r.variant = "death" => r.total_score = 0 /\ r.highest_score = 0
                /\ r.variant = "classic" =>
                       r.total_score = ReplayTotal(u, r.game_mode, "classic", n)
                /\ r.games_played = ReplayCount(u, r.game_mode, r.variant, n)

\* A user with a classic and a death game in one mode, the death game carrying
\* points.
C6_Witness ==
    /\ ProfileReturned
    /\ \E r, q \in ret.value.achievements :
          /\ r.game_mode = q.game_mode
          /\ r.variant = "death" /\ q.variant = "classic"
          /\ ReplayTotal(ret.banchoId, r.game_mode, "death", Len(games)) > 0

\* ret holds the rows a getTopPlayersAction call returned.
TopPlayersReturned == ret.op = "getTopPlayers" /\ ret.status = "ok"

\* The column a leaderboard of the variant is ordered by.
OrderingKey(variant) == IF variant = "classic" THEN "total_score" ELSE "highest_streak"

\* C7: getTopPlayersAction(mode, variant, limit) returns at most limit entries,
\* and the ordering key of the entries (total_score for classic, highest_streak
\* for death) never increases along the returned sequence.
C7_TopPlayersBoundedAndOrdered ==
    TopPlayersReturned =>
        /\ Len(ret.value) <= ret.limit
        /\ \A i, j \in 1..Len(ret.value) :
              i < j => ret.value[i][OrderingKey(ret.variant)]
                         >= ret.value[j][OrderingKey(ret.variant)]

\* A classic leaderboard of two players with different totals, as long as the
\* limit allows.
C7_Witness ==
    /\ TopPlayersReturned
    /\ ret.variant = "classic"
    /\ ret.limit = 2
    /\ Len(ret.value) = 2
    /\ ret.value[1].total_score > ret.value[2].total_score

\* C8: getTopPlayersAction rejects a limit outside 1..100 with a validation
\* error and runs no query.
C8_LimitOutsideRangeRejected ==
    (ret.op = "getTopPlayers" /\ ret.limit \notin 1..100)
        => (ret.status = "error" /\ ret.queries = 0)

\* C9: in getTopPlayersAction, getUserLatestGamesAction and
\* getUserTopGamesAction a game_mode outside {background, audio, skin} or a
\* variant outside {classic, death} makes the call fail before any query runs.
C9_EnumsValidatedBeforeQuery ==
    (/\ ret.op \in {"getTopPlayers", "getUserLatestGames", "getUserTopGames"}
     /\ \/ ret.gamemode \notin GameModes \cup {NoMode}
        \/ ret.variant \notin GameVariants)
        => (ret.status = "error" /\ ret.queries = 0)

\* C10: every entry getTopPlayersAction returns for the death variant has
\* total_score = 0 and highest_score = 0, whatever points the games hold.
C10_DeathEntriesZeroScores ==
    (TopPlayersReturned /\ ret.variant = "death") =>
        \A i \in 1..Len(ret.value) :
            ret.value[i].total_score = 0 /\ ret.value[i].highest_score = 0

\* A death leaderboard with a player whose death games of the mode hold points.
C10_Witness ==
    /\ TopPlayersReturned
    /\ ret.variant = "death"
    /\ \E i \in 1..Len(ret.value) :
          ReplayTotal(ret.value[i].bancho_id, ret.gamemode, "death", Len(games)) > 0

(***************************************************************************)
(* C11. getUserByIdAction(id) returns null, and not an error, exactly when  *)
(* no user row has bancho_id = id, and a call that returns null has issued *)
(* the user query only: no achievement query and no rank query.            *)
(***************************************************************************)
C11_NullIffNoUserRow ==
    ret.op = "getUserById" =>
        /\ ret.found <=> (\E id \in DOMAIN users : users[id].bancho_id = ret.banchoId)
        /\ ~ret.found => ret.queries = 1

\* A call for an id without a user row, while the log holds games recorded
\* for that id, has returned null.
C11_Witness ==
    /\ ret.op = "getUserById"
    /\ ~ret.found
    /\ \E i \in DOMAIN games : games[i].user_id = ret.banchoId

(***************************************************************************)
(* C12. Every returned profile carries a global rank with classic and      *)
(* death set, and a modeRanks entry for each of background, audio and skin *)
(* with classic and death set, the modes the user has no game in included. *)
(***************************************************************************)
C12_AllRanksPresent ==
    ProfileReturned =>
        /\ DOMAIN ret.value.ranks = {"globalRank", "modeRanks"}
        /\ DOMAIN ret.value.ranks.globalRank = {"classic", "death"}
        /\ \A v \in GameVariants : ret.value.ranks.globalRank[v] \in Nat \ {0}
        /\ DOMAIN ret.value.ranks.modeRanks = {"background", "audio", "skin"}
        /\ \A m \in {"background", "audio", "skin"} :
              /\ DOMAIN ret.value.ranks.modeRanks[m] = {"classic", "death"}
              /\ \A v \in GameVariants : ret.value.ranks.modeRanks[m][v] \in Nat \ {0}

\* A profile returned for a user who has games in one mode only, with a
\* rank in each of the three modes.
C12_Witness ==
    /\ ProfileReturned
    /\ Cardinality({games[i].game_mode :
                       i \in {j \in DOMAIN games : games[j].user_id = ret.banchoId}}) = 1
    /\ \A m \in {"background", "audio", "skin"} :
          ret.value.ranks.modeRanks[m].classic \in Nat \ {0}

(***************************************************************************)
(* C14. Reads are idempotent: a second call of the same operation with the *)
(* same arguments against the same games log and users table returns what  *)
(* the first call returned, the order of the leaderboard entries whose     *)
(* ordering keys tie included. Stated for the leaderboard on the state     *)
(* that holds the first call's result: every result the same call can      *)
(* return from this store is that result.                                  *)
(***************************************************************************)
C14_SameCallSameResult ==
    TopPlayersReturned =>
        \A rows \in TopPlayersQuery(ret.gamemode, ret.variant, ret.limit) :
            rows = ret.value

(***************************************************************************)
(* Reference quantities of the search claims.                              *)
(***************************************************************************)
\* The username holds the term as a run of consecutive characters.
Contains(username, term) ==
    \E k \in 0..(Len(username) - Len(term)) :
        \A i \in 1..Len(term) : username[k + i] = term[i]

SearchReturned == ret.op = "searchUsers" /\ ret.status = "ok"

\* The users whose username contains the term.
Matching(term) == {id \in DOMAIN users : Contains(users[id].username, term)}

(***************************************************************************)
(* C15. searchUsersAction(term, limit) with valid arguments returns only   *)
(* users whose username contains term as a substring, ordered by username  *)
(* ascending, at most limit of them and the first limit in that order: no  *)
(* user left out has a username before the last one returned, and none is  *)
(* left out while the result is shorter than limit. With no matching       *)
(* username the result is the empty sequence.                              *)
(***************************************************************************)
C15_SearchReturnsSubstringMatches ==
    SearchReturned =>
        /\ \A i \in 1..Len(ret.value) :
              /\ ret.value[i].bancho_id \in Matching(ret.term)
              /\ ret.value[i].username = users[ret.value[i].bancho_id].username
        /\ \A i, j \in 1..Len(ret.value) :
              i < j => /\ ret.value[i].bancho_id # ret.value[j].bancho_id
                       /\ UsernameLeq(ret.value[i].username, ret.value[j].username)
        /\ Len(ret.value) <= ret.limit
        /\ \A id \in Matching(ret.term) \ {ret.value[i].bancho_id : i \in 1..Len(ret.value)} :
              /\ Len(ret.value) = ret.limit
              /\ UsernameLeq(ret.value[Len(ret.value)].username, users[id].username)
        /\ Matching(ret.term) = {} => ret.value = <<>>

(***************************************************************************)
(* C16. searchUsersAction fails with a validation error, and runs no       *)
(* query, whenever the term is shorter than 2 or longer than 250           *)
(* characters or the limit is below 1 or above 100; the limit is never     *)
(* clamped into the range.                                                 *)
(***************************************************************************)
C16_SearchArgumentsValidated ==
    (/\ ret.op = "searchUsers"
     /\ \/ Len(ret.term) < 2
        \/ Len(ret.term) > 250
        \/ ret.limit < 1
        \/ ret.limit > 100)
    => /\ ret.status = "error"
       /\ ret.error = "ZodError"
       /\ ret.queries = 0
       /\ "value" \notin DOMAIN ret

\* A search with a matching term and limit 101, while two users match, has
\* been rejected.
C16_Witness ==
    /\ ret.op = "searchUsers"
    /\ ret.status = "error"
    /\ ret.limit = 101
    /\ Cardinality(Matching(ret.term)) = 2

(***************************************************************************)
(* C17. The search-users endpoint validates the X-API-Key header before    *)
(* anything else: when the validation fails the response is HTTP 403 with  *)
(* success false, the query parameters have not been parsed and            *)
(* searchUsersAction has not been called.                                  *)
(***************************************************************************)
C17_KeyValidatedFirst ==
    (ret.op = "GET" /\ ret.request.apiKey \notin ValidApiKeys) =>
        /\ ret.status = 403
        /\ ret.body.success = FALSE
        /\ ~ret.parsed
        /\ ret.searches = <<>>

\* A request with a key the store does not hold and parameters that are not
\* valid has been answered.
C17_Witness ==
    /\ ret.op = "GET"
    /\ ret.request.apiKey = "key-0"
    /\ ret.request.query = Param(<<"a">>)
    /\ ret.request.limit = Param(<<"1", "0", "1">>)
    /\ ret.status = 403

(***************************************************************************)
(* C18. The limit parameter of the endpoint defaults to 20: a request with *)
(* a valid key and a valid query and no limit parameter, against a store   *)
(* that answers, searches with limit 20 and is answered with success true. *)
(***************************************************************************)
C18_LimitDefaultsTo20 ==
    (/\ ret.op = "GET"
     /\ ret.request.apiKey \in ValidApiKeys
     /\ ret.request.query.present
     /\ Len(ret.request.query.chars) >= 2
     /\ Len(ret.request.query.chars) <= 250
     /\ ~ret.request.limit.present
     /\ ~ret.request.storeFails)
    => /\ ret.body.success = TRUE
       /\ Len(ret.searches) = 1
       /\ ret.searches[1].term = ret.request.query.chars
       /\ ret.searches[1].limit = 20

(***************************************************************************)
(* C19. Every request to the endpoint is answered with exactly one of      *)
(* three shapes: 403 with success false and an error, when the key is not  *)
(* valid; success true with the data of the search; 500 with success false *)
(* and an error, when after a valid key the parameter validation or the    *)
(* search has thrown. No exception leaves the handler.                     *)
(***************************************************************************)
C19_ThreeResponseShapes ==
    ret.op = "GET" =>
        \/ /\ ret.request.apiKey \notin ValidApiKeys
           /\ ret.status = 403
           /\ DOMAIN ret.body = {"success", "error"}
           /\ ret.body.success = FALSE
        \/ /\ ret.request.apiKey \in ValidApiKeys
           /\ ~ret.request.storeFails
           /\ ret.status = 200
           /\ DOMAIN ret.body = {"success", "data"}
           /\ ret.body.success = TRUE
           /\ Len(ret.searches) = 1
           /\ ret.body.data \in
                 SearchUsersQuery(ret.searches[1].term, ret.searches[1].limit)
        \/ /\ ret.request.apiKey \in ValidApiKeys
           /\ \/ ret.request.storeFails
              \/ ~ret.request.query.present
              \/ Len(QueryField(ret.request.query)) \notin 2..250
              \/ NumberOf(ret.request.limit) = NaN
              \/ NumberOf(ret.request.limit).n \notin 1..100
           /\ ret.status = 500
           /\ DOMAIN ret.body = {"success", "error"}
           /\ ret.body.success = FALSE

\* A request with a valid key and valid parameters, against a store that
\* fails the query, has been answered with 500 after one search call.
C19_Witness ==
    /\ ret.op = "GET"
    /\ ret.request.apiKey \in ValidApiKeys
    /\ ret.request.storeFails
    /\ Len(ret.searches) = 1
    /\ ret.status = 500

(***************************************************************************)
(* Reference quantities of the consistency claim: the metric, the ranks    *)
(* and the achievements that hold in the state of the log after its first  *)
(* n rows.                                                                 *)
(***************************************************************************)
MetricAt(u, part, variant, n) ==
    IF variant = "classic"
    THEN ReplayTotal(u, part, "classic", n)
    ELSE ReplayBestStreak(u, part, "death", n)

RanksHoldAt(profile, u, n) ==
    \A part \in Partitions, variant \in GameVariants :
        ReportedRank(profile, part, variant)
          = 1 + Cardinality({v \in UserIds :
                    MetricAt(v, part, variant, n) > MetricAt(u, part, variant, n)})

AchievementsHoldAt(profile, u, n) ==
    \A m \in GameModes, v \in GameVariants :
        LET rows == {r \in profile.achievements : r.game_mode = m /\ r.variant = v}
        IN  IF ReplayCount(u, m, v, n) = 0
            THEN rows = {}
            ELSE /\ Cardinality(rows) = 1
                 /\ \A r \in rows :
                       /\ r.games_played = ReplayCount(u, m, v, n)
                       /\ r.highest_streak = ReplayBestStreak(u, m, v, n)
                       /\ r.last_played = ReplayLastPlayed(u, m, v, n)
                       /\ r.total_score =
                            (IF v = "classic" THEN ReplayTotal(u, m, v, n) ELSE 0)

\* ret holds a profile that the call running query by query returned.
StepwiseProfileReturned == ProfileReturned /\ "start" \in DOMAIN ret

(***************************************************************************)
(* C13. A profile is not point-in-time consistent under concurrent writes. *)
(* When no game was inserted between the first query of the call and its   *)
(* return, the achievements and every rank of the profile are those of the *)
(* one state of the log. The witness is the other half: with an insert     *)
(* between two queries, a returned profile whose achievements and ranks do *)
(* not all hold in any single state of the log.                            *)
(***************************************************************************)
C13_ConsistentWithoutInterleavedWrite ==
    (StepwiseProfileReturned /\ ret.start = Len(games)) =>
        /\ RanksHoldAt(ret.value, ret.banchoId, Len(games))
        /\ AchievementsHoldAt(ret.value, ret.banchoId, Len(games))

\* A returned profile, with games inserted during the call, that matches no
\* state the log has ever been in.
C13_Witness ==
    /\ StepwiseProfileReturned
    /\ ret.start < Len(games)
    /\ \A n \in 0..Len(games) :
          ~(/\ RanksHoldAt(ret.value, ret.banchoId, n)
            /\ AchievementsHoldAt(ret.value, ret.banchoId, n))

(***************************************************************************)
(* C20. The games log is append-only with respect to the module: whichever *)
(* of createUserAction, deleteUserAction, getUserByIdAction,               *)
(* getUserStatsAction, getUserLatestGamesAction, getUserTopGamesAction,    *)
(* getTopPlayersAction, searchUsersAction and getHighestStatsAction runs,  *)
(* every game row that existed before the step is still there after it,    *)
(* at its place and unchanged.                                             *)
(***************************************************************************)
C20_GamesLogAppendOnly ==
    [][\A i \in DOMAIN games : i \in DOMAIN games' /\ games'[i] = games[i]]_vars

\* The log holds a game of a user whose row has been deleted.
C20_Witness ==
    /\ games # <<>>
    /\ \E i \in DOMAIN games : games[i].user_id \notin DOMAIN users

(***************************************************************************)
(* C21. A store failure is propagated, not swallowed and not retried: when *)
(* one of the queries of getUserByIdAction fails, the call is rejected to  *)
(* its caller with no profile, complete or partial, and no null; the       *)
(* failing query is the last one the call has issued, each query before it *)
(* was issued once, and the call is over.                                  *)
(***************************************************************************)
C21_StoreFailurePropagated ==
    (ret.op = "getUserById" /\ "failedAt" \in DOMAIN ret) =>
        /\ "value" \notin DOMAIN ret
        /\ "found" \notin DOMAIN ret
        /\ "error" \in DOMAIN ret
        /\ ret.status = "rejected"
        /\ ret.queries = ret.failedAt
        /\ call = Idle

\* The classic rank query of the second mode was rejected, for a user who
\* has a game in the log.
C21_Witness ==
    /\ ret.op = "getUserById"
    /\ "failedAt" \in DOMAIN ret
    /\ ret.failedAt = 7
    /\ \E i \in DOMAIN games : games[i].user_id = ret.banchoId

(***************************************************************************)
(* C22. createUserAction is an upsert keyed on bancho_id. After a call     *)
(* there is one row for the id, under that id, with the username and       *)
(* avatar_url of the call; when the id had a row, its created_at,          *)
(* special_badge and special_badge_color are what they were; every other   *)
(* row is what it was and no other id gains or loses a row; and a call     *)
(* that finds the row already holding its username and avatar_url changes  *)
(* nothing.                                                                *)
(***************************************************************************)
C22_CreateUserIsUpsert ==
    [][\A id \in UserIds, t \in 0..1 :
          createUserAction(id, OsuNameAt(id, t), OsuProfile[id].avatar_url) =>
              /\ DOMAIN users' = DOMAIN users \cup {id}
              /\ \A o \in DOMAIN users' : users'[o].bancho_id = o
              /\ users'[id].username = OsuNameAt(id, t)
              /\ users'[id].avatar_url = OsuProfile[id].avatar_url
              /\ id \in DOMAIN users =>
                    /\ users'[id].created_at = users[id].created_at
                    /\ users'[id].special_badge = users[id].special_badge
                    /\ users'[id].special_badge_color = users[id].special_badge_color
              /\ \A o \in DOMAIN users \ {id} : users'[o] = users[o]
              /\ (/\ id \in DOMAIN users
                  /\ users[id].username = OsuNameAt(id, t)
                  /\ users[id].avatar_url = OsuProfile[id].avatar_url) => users' = users
      ]_vars

\* A row created at time 0 holds the username of a sign-in at a later time,
\* next to its badge and its created_at, while the other user has a row too.
C22_Witness ==
    /\ now >= 1
    /\ DOMAIN users = UserIds
    /\ \E id \in UserIds :
          /\ users[id].created_at = 0
          /\ users[id].username = OsuNameAt(id, 1)
          /\ users[id].special_badge # Null

(***************************************************************************)
(* Reference quantities of the visibility claim.                           *)
(***************************************************************************)
\* The entries of a result that are about the user: none or one.
EntryOf(id, rows) == {rows[i] : i \in {j \in DOMAIN rows : rows[j].bancho_id = id}}

\* What an operation can return about the user, over its possible results.
OutcomesFor(id, results) == {EntryOf(id, rows) : rows \in results}

\* What getUserByIdAction(id) returns: nothing (null) or the profile.
ProfileOutcome(id) == IF id \in DOMAIN users THEN {Profile(id)} ELSE {}

\* The response in ret shows nothing of a user without a row: a profile
\* call for such an id returned null, and a search or leaderboard result
\* has no entry of such an id.
ShowsOnlyUsersWithRow ==
    /\ ret.op = "getUserById" => (ret.banchoId \notin DOMAIN users => ~ret.found)
    /\ ret.op = "searchUsers" /\ ret.status = "ok" =>
          \A i \in DOMAIN ret.value : ret.value[i].bancho_id \in DOMAIN users
    /\ ret.op = "getTopPlayers" /\ ret.status = "ok" =>
          \A i \in DOMAIN ret.value : ret.value[i].bancho_id \in DOMAIN users

\* deleteUserAction(id) removes the row of id, and only createUserAction(id)
\* brings a row of id back.
RowGoneUntilRecreated(id) ==
    /\ deleteUserAction(id) => id \notin DOMAIN users'
    /\ (id \notin DOMAIN users /\ id \in DOMAIN users') =>
          \E name \in Usernames : createUserAction(id, name, OsuProfile[id].avatar_url)

(***************************************************************************)
(* C23 as stated. After deleteUserAction(id) and until a later             *)
(* createUserAction(id), getUserByIdAction(id) returns null and id is in   *)
(* no search result and no leaderboard result; and deleteUserAction on     *)
(* another id never changes what these operations return for id: the       *)
(* profile, and the entry or the absence of id in a search result and in a *)
(* leaderboard result, for every term, mode, variant and limit.            *)
(***************************************************************************)
C23_DeletedUserInvisibleOthersUntouched ==
    [][/\ ShowsOnlyUsersWithRow'
       /\ \A id \in UserIds :
             /\ RowGoneUntilRecreated(id)
             /\ \A o \in UserIds \ {id} :
                   deleteUserAction(o) =>
                       /\ ProfileOutcome(id)' = ProfileOutcome(id)
                       /\ \A term \in VisibleTerms, l \in VisibleLimits :
                             OutcomesFor(id, SearchUsersQuery(term, l))'
                               = OutcomesFor(id, SearchUsersQuery(term, l))
                       /\ \A v \in GameVariants, l \in VisibleLimits :
                             OutcomesFor(id, TopPlayersQuery("background", v, l))'
                               = OutcomesFor(id, TopPlayersQuery("background", v, l))
      ]_vars

\* What a deletion of another user leaves of id in the possible results of
\* a query: before and after are the outcomes for id before and after the
\* deletion, full the outcomes before it with a limit that cuts nothing off.
\* An entry of id that could be returned can still be returned, unchanged;
\* id does not drop out of a result; an entry returned afterwards is the
\* entry of id from before; and with a limit that cuts nothing off nothing
\* changes.
KeepsEntry(before, after, full, limit) ==
    /\ \A e \in before : e # {} => e \in after
    /\ {} \in after => {} \in before
    /\ \A e \in after : e # {} => e \in full
    /\ limit >= Cardinality(UserIds) => after = before

(***************************************************************************)
(* C23, amended. After deleteUserAction(id) and until a later              *)
(* createUserAction(id), getUserByIdAction(id) returns null and id is in   *)
(* no search result and no leaderboard result. deleteUserAction on another *)
(* id never changes the profile of id nor the entry of id in a search or   *)
(* leaderboard result, and never removes id from a result; under a limit   *)
(* that cut id off it can bring id into the result.                        *)
(***************************************************************************)
C23_DeletedUserInvisibleOthersKeepEntry ==
    [][/\ ShowsOnlyUsersWithRow'
       /\ \A id \in UserIds :
             /\ RowGoneUntilRecreated(id)
             /\ \A o \in UserIds \ {id} :
                   deleteUserAction(o) =>
                       /\ ProfileOutcome(id)' = ProfileOutcome(id)
                       /\ \A term \in VisibleTerms, l \in VisibleLimits :
                             KeepsEntry(OutcomesFor(id, SearchUsersQuery(term, l)),
                                        OutcomesFor(id, SearchUsersQuery(term, l))',
                                        OutcomesFor(id, SearchUsersQuery(term, MaxLimit)),
                                        l)
                       /\ \A v \in GameVariants, l \in VisibleLimits :
                             KeepsEntry(OutcomesFor(id, TopPlayersQuery("background", v, l)),
                                        OutcomesFor(id, TopPlayersQuery("background", v, l))',
                                        OutcomesFor(id, TopPlayersQuery("background", v, MaxLimit)),
                                        l)
      ]_vars

\* A leaderboard that lists a user was returned while the log holds games
\* of the same mode and variant of a deleted user, who is not listed.
C23_Witness ==
    /\ ret.op = "getTopPlayers"
    /\ ret.status = "ok"
    /\ Len(ret.value) >= 1
    /\ \E i \in DOMAIN games :
          /\ games[i].user_id \notin DOMAIN users
          /\ games[i].game_mode = ret.gamemode
          /\ games[i].variant = ret.variant
          /\ \A j \in DOMAIN ret.value : ret.value[j].bancho_id # games[i].user_id

(***************************************************************************)
(* C24. Leaderboard and ranker agree in every state that user creations,   *)
(* user deletions and game inserts reach: with a limit that covers all     *)
(* players, the player at position k of getTopPlayersAction(mode, variant) *)
(* has, in the profile getUserByIdAction returns for them in that state, a *)
(* rank for the mode and variant that is at most k, and the player at      *)
(* position 1 has rank 1.                                                  *)
(***************************************************************************)
C24_LeaderboardAgreesWithRanks ==
    (TopPlayersReturned /\ ret.limit >= Cardinality(UserIds)) =>
        \A k \in DOMAIN ret.value :
            LET rank == Profile(ret.value[k].bancho_id).ranks.modeRanks[ret.gamemode][ret.variant]
            IN  /\ rank <= k
                /\ k = 1 => rank = 1

==============================================================================
